---- MODULE Spec2Model ----
(***************************************************************************)
(* Model of streamlit_app.py: parse_chat (header segmentation, timestamp   *)
(* normalisation, record assembly) and analyze_romance (keyword counter).  *)
(* Text is a sequence of characters; a character is a one-character        *)
(* string, except NNBSP which stands for U+202F NARROW NO-BREAK SPACE.     *)
(***************************************************************************)
EXTENDS Integers, Sequences, FiniteSets, TLC

VARIABLES
    input,                  \* how the uploaded text was composed (preamble, header fields, bodies)
    content,                \* parse_chat: the decoded text
    messages,               \* parse_chat: line_start_pattern.split(content)[1:]
    timestamps_and_senders, \* parse_chat: line_start_pattern.findall(content)
    i,                      \* parse_chat: loop index (1-based)
    chat_data,              \* parse_chat: rows appended so far
    errors,                 \* st.error diagnostics reported by parse_chat
    result,                 \* rows of the DataFrame parse_chat returned
    pc,                     \* position in parse_chat
    df,                     \* analyze_romance: the 'message' column
    romantic_words,         \* analyze_romance: the keyword list
    word_counts,            \* analyze_romance: dict word -> count
    mi,                     \* analyze_romance: index of the current message
    wi,                     \* analyze_romance: index of the current word
    romance_df,             \* analyze_romance: returned rows <<word, count>>
    rpc                     \* position in analyze_romance

parseVars == <<input, content, messages, timestamps_and_senders, i, chat_data, errors, result, pc>>
romanceVars == <<df, romantic_words, word_counts, mi, wi, romance_df, rpc>>
vars == <<input, content, messages, timestamps_and_senders, i, chat_data, errors, result, pc,
          df, romantic_words, word_counts, mi, wi, romance_df, rpc>>

----------------------------------------------------------------------------
(* Characters and character classes of Python's re on str patterns.        *)

NNBSP == "NNBSP"

Digit == {"0", "1", "2", "3", "4", "5", "6", "7", "8", "9"}

\* \s on a str pattern matches Unicode whitespace; U+202F is whitespace (category Zs).
Space == {" ", "\n", "\t", NNBSP}

DigitVal(c) ==
    CASE c = "0" -> 0 [] c = "1" -> 1 [] c = "2" -> 2 [] c = "3" -> 3 [] c = "4" -> 4
      [] c = "5" -> 5 [] c = "6" -> 6 [] c = "7" -> 7 [] c = "8" -> 8 [] c = "9" -> 9

RECURSIVE NumVal(_)
NumVal(s) == IF s = <<>> THEN 0 ELSE 10 * NumVal(SubSeq(s, 1, Len(s) - 1)) + DigitVal(s[Len(s)])

\* str.lower() on the letters of the model's alphabet.
LowerChar(c) ==
    CASE c = "A" -> "a" [] c = "L" -> "l" [] c = "M" -> "m" [] c = "O" -> "o" [] c = "P" -> "p"
      [] OTHER -> c

Lower(s) == [k \in 1..Len(s) |-> LowerChar(s[k])]

RECURSIVE Concat(_)
Concat(ss) == IF ss = <<>> THEN <<>> ELSE Head(ss) \o Concat(Tail(ss))

----------------------------------------------------------------------------
(* Regular expressions. A pattern is a sequence of items; an item is a     *)
(* character class (or its negation) with a greedy repetition range. A     *)
(* position is the index of the next character to read, 0 a failed match.  *)

One(S)          == [set |-> S, neg |-> FALSE, lo |-> 1, hi |-> 1]    \* x
Maybe(S)        == [set |-> S, neg |-> FALSE, lo |-> 0, hi |-> 1]    \* x?
Some(S, lo, hi) == [set |-> S, neg |-> FALSE, lo |-> lo, hi |-> hi]  \* x{lo,hi}
Star(S)         == [set |-> S, neg |-> FALSE, lo |-> 0, hi |-> -1]   \* x*
Plus(S)         == [set |-> S, neg |-> FALSE, lo |-> 1, hi |-> -1]   \* x+
PlusNot(S)      == [set |-> S, neg |-> TRUE, lo |-> 1, hi |-> -1]    \* [^x]+

\* Op applied to the value of v
Bind(v, Op(_)) == CHOOSE r \in {Op(q) : q \in {v}} : TRUE

\* the number of characters, at most max, the item takes at p when it takes all it can
RECURSIVE Run(_, _, _, _)
Run(s, p, item, max) ==
    IF max = 0 \/ p > Len(s) \/ ((s[p] \in item.set) = item.neg) THEN 0
    ELSE 1 + Run(s, p + 1, item, max - 1)

\* the position after the item. In the patterns below an item is always followed by
\* a character outside its class, so giving characters back never rescues a match.
Step(s, p, item) ==
    Bind(Run(s, p, item, IF item.hi < 0 THEN Len(s) ELSE item.hi),
         LAMBDA k : IF k >= item.lo THEN p + k ELSE 0)

\* the positions after each of the items n.. of pattern, matched from p; the match
\* stops at the first item that fails, leaving 0 as the last position
RECURSIVE Ends(_, _, _, _)
Ends(s, p, pattern, n) ==
    IF n > Len(pattern) THEN <<>>
    ELSE Bind(Step(s, p, pattern[n]),
              LAMBDA q : IF q = 0 THEN <<0>> ELSE <<q>> \o Ends(s, q, pattern, n + 1))

\* whether the positions e are those of a complete match
Matched(e) == e[Len(e)] # 0

\* the position after a match of pattern at p, or 0
MatchEnd(s, p, pattern) == Bind(Ends(s, p, pattern, 1), LAMBDA e : e[Len(e)])

----------------------------------------------------------------------------
(* parse_chat: segmentation.                                               *)

\* \[\d{1,2}/\d{1,2}/\d{2,4},\s\d{1,2}:\d{2}:\d{2}\s?[APap]?\.?[Mm]?\.?\]\s[^:]+:
line_start_pattern ==
    << One({"["}), Some(Digit, 1, 2), One({"/"}), Some(Digit, 1, 2), One({"/"}),
       Some(Digit, 2, 4), One({","}), One(Space),
       Some(Digit, 1, 2), One({":"}), Some(Digit, 2, 2), One({":"}), Some(Digit, 2, 2),
       Maybe(Space), Maybe({"A", "P", "a", "p"}), Maybe({"."}), Maybe({"M", "m"}), Maybe({"."}),
       One({"]"}), One(Space), PlusNot({":"}), One({":"}) >>

\* pattern.search from position pos: <<start, end>> of the leftmost match, or <<0, 0>>
Search(s, pos) ==
    LET starts == {p \in pos..Len(s) : MatchEnd(s, p, line_start_pattern) # 0}
    IN  IF starts = {} THEN <<0, 0>>
        ELSE Bind(CHOOSE p \in starts : \A q \in starts : p <= q,
                  LAMBDA p : <<p, MatchEnd(s, p, line_start_pattern)>>)

\* pattern.findall(content): the matched substrings, left to right, non-overlapping
RECURSIVE FindAllFrom(_, _)
FindAllFrom(s, pos) ==
    Bind(Search(s, pos),
         LAMBDA m : IF m[1] = 0 THEN <<>>
                    ELSE <<SubSeq(s, m[1], m[2] - 1)>> \o FindAllFrom(s, m[2]))

FindAll(s) == FindAllFrom(s, 1)

\* pattern.split(content): the text before, between and after the matches
RECURSIVE SplitFrom(_, _)
SplitFrom(s, last) ==
    Bind(Search(s, last),
         LAMBDA m : IF m[1] = 0 THEN <<SubSeq(s, last, Len(s))>>
                    ELSE <<SubSeq(s, last, m[1] - 1)>> \o SplitFrom(s, m[2]))

\* a split that leaves out the empty pieces
SplitNonEmpty(s) == SelectSeq(SplitFrom(s, 1), LAMBDA piece : piece # <<>>)

Split(s) == SplitFrom(s, 1)

\* seq[1:]
Drop1(seq) == IF seq = <<>> THEN <<>> ELSE Tail(seq)

\* whitespace removed everywhere, the inside included
StripAll(s) == SelectSeq(s, LAMBDA c : c \notin Space)

\* str.strip(): leading and trailing whitespace removed, the inside untouched
Strip(s) ==
    LET ix == {k \in 1..Len(s) : s[k] \notin Space}
    IN  IF ix = {} THEN <<>>
        ELSE SubSeq(s, CHOOSE a \in ix : \A b \in ix : a <= b,
                       CHOOSE a \in ix : \A b \in ix : a >= b)

\* str.replace(old, new) for single characters
Replace(s, old, new) == [k \in 1..Len(s) |-> IF s[k] = old THEN new ELSE s[k]]

----------------------------------------------------------------------------
(* parse_chat: field extraction and timestamp parsing.                     *)

\* \[(\d{1,2}/\d{1,2}/\d{2,4}),\s*(\d{1,2}:\d{2}:\d{2}[\s\u202f]?[APap]?\.?[Mm]?\.?)\]\s([^:]+):
details_pattern ==
    << One({"["}), Some(Digit, 1, 2), One({"/"}), Some(Digit, 1, 2), One({"/"}),
       Some(Digit, 2, 4), One({","}), Star(Space),
       Some(Digit, 1, 2), One({":"}), Some(Digit, 2, 2), One({":"}), Some(Digit, 2, 2),
       Maybe(Space \cup {NNBSP}), Maybe({"A", "P", "a", "p"}), Maybe({"."}), Maybe({"M", "m"}),
       Maybe({"."}),
       One({"]"}), One(Space), PlusNot({":"}), One({":"}) >>

NoMatch == [matched |-> FALSE, date |-> <<>>, time |-> <<>>, sender |-> <<>>]

\* details_pattern.match(header) and match.groups(): group 1 spans items 2-6,
\* group 2 items 9-18, group 3 item 21
DetailsMatch(header) ==
    Bind(Ends(header, 1, details_pattern, 1),
         LAMBDA e : IF ~Matched(e) THEN NoMatch
                    ELSE [matched |-> TRUE,
                          date    |-> SubSeq(header, e[1], e[6] - 1),
                          time    |-> SubSeq(header, e[8], e[18] - 1),
                          sender  |-> SubSeq(header, e[20], e[21] - 1)])

NaT == [ok |-> FALSE, year |-> 0, month |-> 0, day |-> 0, hour |-> 0, minute |-> 0, second |-> 0]

IsLeap(y) == (y % 4 = 0 /\ y % 100 # 0) \/ y % 400 = 0

DaysInMonth(y, m) ==
    IF m \in {4, 6, 9, 11} THEN 30
    ELSE IF m = 2 THEN (IF IsLeap(y) THEN 29 ELSE 28)
    ELSE 31

\* every two-digit year taken to be in the century 2000
Year2DigitCentury2000(yy) == 2000 + yy

\* %y: 00..68 are 2000..2068 and 69..99 are 1969..1999
Year2Digit(yy) == IF yy <= 68 THEN 2000 + yy ELSE 1900 + yy

\* %I with %p: 12 AM is hour 0, 12 PM is hour 12
Hour12(h12, pm) == (h12 % 12) + (IF pm THEN 12 ELSE 0)

\* the datetime built from the parsed fields; an impossible date is a ValueError
MakeTimestamp(y, m, d, hh, mm, ss) ==
    IF y >= 1 /\ d <= DaysInMonth(y, m) /\ ss <= 59
    THEN [ok |-> TRUE, year |-> y, month |-> m, day |-> d, hour |-> hh, minute |-> mm, second |-> ss]
    ELSE NaT

\* The regex of format '%d/%m/%y %I:%M:%S %p' (matched ignoring case):
\*   (3[0-1]|[1-2]\d|0[1-9]|[1-9]| [1-9])/(1[0-2]|0[1-9]|[1-9])/(\d\d)\s+
\*   (1[0-2]|0[1-9]|[1-9]):([0-5]\d|\d):(6[0-1]|[0-5]\d|\d)\s+(am|pm)
\* Every numeric field is followed by a non-digit, so a field is the whole run of
\* digits at its place; the ranges of the alternatives are checked on its value.
format_12h ==
    << Maybe({" "}), Some(Digit, 1, 2), One({"/"}), Some(Digit, 1, 2), One({"/"}),
       Some(Digit, 2, 2), Plus(Space),
       Some(Digit, 1, 2), One({":"}), Some(Digit, 1, 2), One({":"}), Some(Digit, 1, 2),
       Plus(Space), One({"A", "a", "P", "p"}), One({"M", "m"}) >>

\* The regex of format '%d/%m/%Y %H:%M:%S':
\*   (3[0-1]|[1-2]\d|0[1-9]|[1-9]| [1-9])/(1[0-2]|0[1-9]|[1-9])/(\d\d\d\d)\s+
\*   (2[0-3]|[0-1]\d|\d):([0-5]\d|\d):(6[0-1]|[0-5]\d|\d)
format_24h ==
    << Maybe({" "}), Some(Digit, 1, 2), One({"/"}), Some(Digit, 1, 2), One({"/"}),
       Some(Digit, 4, 4), Plus(Space),
       Some(Digit, 1, 2), One({":"}), Some(Digit, 1, 2), One({":"}), Some(Digit, 1, 2) >>

\* the number written between the end of item a and the end of item b
Field(s, e, a, b) == NumVal(SubSeq(s, e[a], e[b] - 1))

\* the day/month ranges of the regex; " [1-9]" is the only day with a leading space
DayMonthOk(s, e) ==
    /\ Field(s, e, 1, 2) \in 1..31
    /\ Field(s, e, 3, 4) \in 1..12
    /\ (e[1] = 2 => e[2] = 3)

\* pd.to_datetime(s, format='%d/%m/%y %I:%M:%S %p'): NaT stands for a ValueError.
\* The whole string has to match.
Strptime12(s) ==
    Bind(Ends(s, 1, format_12h, 1),
         LAMBDA e :
            IF e[Len(e)] # Len(s) + 1 THEN NaT
            ELSE IF ~(DayMonthOk(s, e) /\ Field(s, e, 7, 8) \in 1..12
                      /\ Field(s, e, 9, 10) \in 0..59 /\ Field(s, e, 11, 12) \in 0..61) THEN NaT
            ELSE MakeTimestamp(Year2Digit(Field(s, e, 5, 6)), Field(s, e, 3, 4), Field(s, e, 1, 2),
                               Hour12(Field(s, e, 7, 8), s[e[13]] \in {"P", "p"}),
                               Field(s, e, 9, 10), Field(s, e, 11, 12)))

\* pd.to_datetime(s, format='%d/%m/%Y %H:%M:%S'): NaT stands for a ValueError.
\* Text left after the seconds ("unconverted data remains") is a ValueError too.
Strptime24(s) ==
    Bind(Ends(s, 1, format_24h, 1),
         LAMBDA e :
            IF e[Len(e)] # Len(s) + 1 THEN NaT
            ELSE IF ~(DayMonthOk(s, e) /\ Field(s, e, 7, 8) \in 0..23
                      /\ Field(s, e, 9, 10) \in 0..59 /\ Field(s, e, 11, 12) \in 0..61) THEN NaT
            ELSE MakeTimestamp(Field(s, e, 5, 6), Field(s, e, 3, 4), Field(s, e, 1, 2),
                               Field(s, e, 7, 8), Field(s, e, 9, 10), Field(s, e, 11, 12)))

\* the try/except chain: the 12-hour format first, the 24-hour format as fallback
ParseTimestamp(timestamp_str) ==
    Bind(Strptime12(timestamp_str),
         LAMBDA t : IF t.ok THEN t ELSE Strptime24(timestamp_str))

\* time.replace('\u202f', ' ').strip() and f"{date} {time}"
TimestampStr(date, time) == date \o <<" ">> \o Strip(Replace(time, NNBSP, " "))

Skipped == [ok |-> FALSE, timestamp |-> NaT, sender |-> <<>>]

\* one loop iteration on a header: the timestamp and the trimmed sender, ok = FALSE
\* when details_pattern does not match or both formats raise
ParseHeader(header) ==
    Bind(DetailsMatch(header),
         LAMBDA match :
            IF ~match.matched THEN Skipped
            ELSE Bind(ParseTimestamp(Bind(TimestampStr(match.date, match.time), LAMBDA x : x)),
                      LAMBDA ts : IF ts.ok
                                  THEN [ok |-> TRUE, timestamp |-> ts, sender |-> Strip(match.sender)]
                                  ELSE Skipped))

----------------------------------------------------------------------------
(* The uploaded files: a preamble, then headers written from their fields, *)
(* each followed by a body.                                                *)

MaxHeaders == 2

Days    == {<<"1">>, <<"3", "1">>}
Months  == {<<"2">>, <<"1", "3">>}
Years   == {<<"2", "4">>, <<"7", "0">>, <<"2", "0", "2", "4">>}
Seps    == {<<",", " ">>, <<" ">>}
Hours   == {<<"9">>, <<"1", "2">>, <<"2", "1">>}
Gaps    == {<<>>, <<" ">>, <<NNBSP>>}
Markers == {<<>>, <<"P", "M">>, <<"a", "m">>}
Senders == {<<"A", "l">>}

Headers ==
    [day : Days, month : Months, year : Years, sep : Seps, hour : Hours,
     gap : Gaps, marker : Markers, sender : Senders]

Preambles == {<<>>, <<"e", "2", "e", "\n">>}

Bodies == {<<>>, <<" ", "h", "i", "\n", "y", "o", "\n">>, <<" ", "o", ":", "k">>}

MixBodies == {<<>>, <<" ", "h", "i", "\n", "y", "o", "\n">>}

\* [1/2/24, 9:05:00 PM] Al:
Canonical ==
    [day |-> <<"1">>, month |-> <<"2">>, year |-> <<"2", "4">>, sep |-> <<",", " ">>,
     hour |-> <<"9">>, gap |-> <<" ">>, marker |-> <<"P", "M">>, sender |-> <<"A", "l">>]

\* the headers that files of several messages are composed from
MixHeaders ==
    { Canonical,
      [Canonical EXCEPT !.hour = <<"2", "1">>, !.gap = <<>>, !.marker = <<>>],
      [Canonical EXCEPT !.year = <<"2", "0", "2", "4">>, !.hour = <<"2", "1">>,
                        !.gap = <<>>, !.marker = <<>>],
      [Canonical EXCEPT !.month = <<"1", "3">>],
      [Canonical EXCEPT !.sep = <<" ">>],
      [Canonical EXCEPT !.gap = <<NNBSP>>, !.marker = <<"a", "m">>, !.hour = <<"1", "2">>] }

SeqUpTo(S, n) == UNION {[1..k -> S] : k \in 0..n}

\* headers whose sender field is a single space
BlankSenderHeaders == {[h EXCEPT !.sender = <<" ">>] : h \in MixHeaders}

\* files of one message, the header written from every combination of the fields
SingleInputs ==
    {[pre |-> p, recs |-> <<r>>] :
        p \in Preambles, r \in [hdr : Headers \cup BlankSenderHeaders, body : Bodies]}

\* files of up to MaxHeaders messages
MixInputs ==
    {[pre |-> p, recs |-> rs] : p \in Preambles,
                                 rs \in SeqUpTo([hdr : MixHeaders, body : MixBodies], MaxHeaders)}

HeaderText(h) ==
    <<"[">> \o h.day \o <<"/">> \o h.month \o <<"/">> \o h.year \o h.sep
            \o h.hour \o <<":", "0", "5", ":", "0", "0">> \o h.gap \o h.marker
            \o <<"]", " ">> \o h.sender \o <<":">>

InputText(in) ==
    in.pre \o Concat([k \in 1..Len(in.recs) |-> HeaderText(in.recs[k].hdr) \o in.recs[k].body])

----------------------------------------------------------------------------
(* parse_chat as a state machine.                                          *)

RomanceIdle ==
    /\ df = <<>> /\ romantic_words = <<>> /\ word_counts = <<>>
    /\ mi = 0 /\ wi = 0 /\ romance_df = <<>> /\ rpc = "idle"

Init ==
    /\ (input \in SingleInputs \/ input \in MixInputs)
    /\ content = InputText(input)
    /\ messages = <<>>
    /\ timestamps_and_senders = <<>>
    /\ i = 0
    /\ chat_data = <<>>
    /\ errors = <<>>
    /\ result = <<>>
    /\ pc = "start"
    /\ RomanceIdle

\* the two st.error messages
NoLinesDiagnostic == "Could not find any valid message lines in the file"
FailedDiagnostic == "Failed to parse any valid messages"

\* lines 55-57: the two passes of line_start_pattern over the text
Segmented(s) == [messages |-> Drop1(Split(s)), timestamps_and_senders |-> FindAll(s)]

\* lines 55-61: no header found, the first diagnostic, an empty DataFrame
ReturnNoLines ==
    /\ pc = "start"
    /\ \E seg \in {Segmented(content)} :
          /\ ~(seg.messages # <<>> /\ seg.timestamps_and_senders # <<>>)
          /\ messages' = seg.messages
          /\ timestamps_and_senders' = seg.timestamps_and_senders
    /\ errors' = Append(errors, NoLinesDiagnostic)
    /\ result' = <<>>
    /\ pc' = "done"
    /\ UNCHANGED <<input, content, i, chat_data>>
    /\ UNCHANGED romanceVars

\* lines 55-68: the segmentation, then into the loop
Segment ==
    /\ pc = "start"
    /\ \E seg \in {Segmented(content)} :
          /\ seg.messages # <<>> /\ seg.timestamps_and_senders # <<>>
          /\ messages' = seg.messages
          /\ timestamps_and_senders' = seg.timestamps_and_senders
    /\ i' = 1
    /\ pc' = "loop"
    /\ UNCHANGED <<input, content, chat_data, errors, result>>
    /\ UNCHANGED romanceVars

\* lines 70-94: an iteration whose timestamp parses appends a row
LoopAppend ==
    /\ pc = "loop"
    /\ i <= Len(messages)
    /\ \E parsed \in {ParseHeader(timestamps_and_senders[i])} :
          /\ parsed.ok
          /\ chat_data' = Append(chat_data, [timestamp |-> parsed.timestamp,
                                             sender    |-> parsed.sender,
                                             message   |-> Strip(messages[i])])
    /\ i' = i + 1
    /\ UNCHANGED <<input, content, messages, timestamps_and_senders, errors, result, pc>>
    /\ UNCHANGED romanceVars

\* an unparseable timestamp ends the loop instead of skipping one record
LoopSkipBreak ==
    /\ pc = "loop"
    /\ i <= Len(messages)
    /\ ~ParseHeader(timestamps_and_senders[i]).ok
    /\ i' = Len(messages) + 1
    /\ UNCHANGED <<input, content, messages, timestamps_and_senders, chat_data, errors, result, pc>>
    /\ UNCHANGED <<df, romantic_words, word_counts, mi, wi, romance_df, rpc>>

\* lines 70-92: no match, or both formats raise ValueError: continue
LoopSkip ==
    /\ pc = "loop"
    /\ i <= Len(messages)
    /\ ~ParseHeader(timestamps_and_senders[i]).ok
    /\ i' = i + 1
    /\ UNCHANGED <<input, content, messages, timestamps_and_senders, chat_data, errors, result, pc>>
    /\ UNCHANGED romanceVars

\* every record dropped, reported with the diagnostic of the no-header case
ReturnFailedSameDiagnostic ==
    /\ pc = "loop"
    /\ i > Len(messages)
    /\ chat_data = <<>>
    /\ errors' = Append(errors, NoLinesDiagnostic)
    /\ result' = <<>>
    /\ pc' = "done"
    /\ UNCHANGED <<input, content, messages, timestamps_and_senders, i, chat_data>>
    /\ UNCHANGED <<df, romantic_words, word_counts, mi, wi, romance_df, rpc>>

\* lines 96-98: every record was dropped, the second diagnostic, an empty DataFrame
ReturnFailed ==
    /\ pc = "loop"
    /\ i > Len(messages)
    /\ chat_data = <<>>
    /\ errors' = Append(errors, FailedDiagnostic)
    /\ result' = <<>>
    /\ pc' = "done"
    /\ UNCHANGED <<input, content, messages, timestamps_and_senders, i, chat_data>>
    /\ UNCHANGED romanceVars

\* df.dropna(subset=['timestamp'])
DropNa(rows) == SelectSeq(rows, LAMBDA r : r.timestamp.ok)

\* lines 100-102: the DataFrame of the rows
ReturnFrame ==
    /\ pc = "loop"
    /\ i > Len(messages)
    /\ chat_data # <<>>
    /\ result' = DropNa(chat_data)
    /\ pc' = "done"
    /\ UNCHANGED <<input, content, messages, timestamps_and_senders, i, chat_data, errors>>
    /\ UNCHANGED romanceVars

Next ==
    \/ ReturnNoLines
    \/ Segment
    \/ LoopAppend
    \/ LoopSkip
    \/ ReturnFailed
    \/ ReturnFrame

Spec == Init /\ [][Next]_vars

\* the rows of the loop of lines 70-94 over headers hs and bodies ms, from index k
RECURSIVE RowsFrom(_, _, _)
RowsFrom(hs, ms, k) ==
    IF k > Len(ms) THEN <<>>
    ELSE Bind(ParseHeader(hs[k]),
              LAMBDA parsed :
                 IF parsed.ok
                 THEN <<[timestamp |-> parsed.timestamp, sender |-> parsed.sender,
                         message |-> Strip(ms[k])]>> \o RowsFrom(hs, ms, k + 1)
                 ELSE RowsFrom(hs, ms, k + 1))

\* parse_chat as a function of the text: the rows of the returned DataFrame
parse_chat(text) ==
    Bind(Segmented(text),
         LAMBDA seg : IF seg.messages = <<>> \/ seg.timestamps_and_senders = <<>> THEN <<>>
                      ELSE DropNa(RowsFrom(seg.timestamps_and_senders, seg.messages, 1)))

----------------------------------------------------------------------------
(* analyze_romance as a state machine.                                     *)

MaxMessages == 2
MaxKeywords == 2

RomanceMessages == {<<"l", "o">>, <<"L", "o", " ", "l", "o">>, <<"o", "k">>}
Keywords == {<<"l", "o">>, <<"L", "o">>, <<"o">>}

ParseIdle ==
    /\ input = [pre |-> <<>>, recs |-> <<>>] /\ content = <<>> /\ messages = <<>>
    /\ timestamps_and_senders = <<>> /\ i = 0 /\ chat_data = <<>> /\ errors = <<>>
    /\ result = <<>> /\ pc = "idle"

InitRomance ==
    /\ df \in SeqUpTo(RomanceMessages, MaxMessages)
    /\ romantic_words \in SeqUpTo(Keywords, MaxKeywords)
    /\ word_counts = <<>>
    /\ mi = 0
    /\ wi = 0
    /\ romance_df = <<>>
    /\ rpc = "start"
    /\ ParseIdle

\* word in text, for sequences of characters
Contains(text, word) ==
    \E k \in 0..(Len(text) - Len(word)) : SubSeq(text, k + 1, k + Len(word)) = word

\* the keys of {word: 0 for word in romantic_words}, in insertion order
RECURSIVE DictKeys(_)
DictKeys(words) ==
    IF words = <<>> THEN <<>>
    ELSE Bind(DictKeys(SubSeq(words, 1, Len(words) - 1)),
              LAMBDA ks : IF \E k \in 1..Len(ks) : ks[k] = words[Len(words)] THEN ks
                          ELSE Append(ks, words[Len(words)]))

\* line 115: the dict of zero counts
RomanceStart ==
    /\ rpc = "start"
    /\ word_counts' = [w \in {romantic_words[k] : k \in 1..Len(romantic_words)} |-> 0]
    /\ mi' = 1
    /\ wi' = 1
    /\ rpc' = "count"
    /\ UNCHANGED <<df, romantic_words, romance_df>>
    /\ UNCHANGED parseVars

\* lines 118-120: the word is in the lowercased message
CountHit ==
    /\ rpc = "count"
    /\ mi <= Len(df)
    /\ wi <= Len(romantic_words)
    /\ Contains(Lower(df[mi]), romantic_words[wi])
    /\ word_counts' = [word_counts EXCEPT ![romantic_words[wi]] = @ + 1]
    /\ wi' = wi + 1
    /\ UNCHANGED <<df, romantic_words, mi, romance_df, rpc>>
    /\ UNCHANGED parseVars

\* lines 118-119: the word is not in the lowercased message
CountMiss ==
    /\ rpc = "count"
    /\ mi <= Len(df)
    /\ wi <= Len(romantic_words)
    /\ ~Contains(Lower(df[mi]), romantic_words[wi])
    /\ wi' = wi + 1
    /\ UNCHANGED <<df, romantic_words, word_counts, mi, romance_df, rpc>>
    /\ UNCHANGED parseVars

\* line 117: the words are exhausted, on to the next message
NextMessage ==
    /\ rpc = "count"
    /\ mi <= Len(df)
    /\ wi > Len(romantic_words)
    /\ mi' = mi + 1
    /\ wi' = 1
    /\ UNCHANGED <<df, romantic_words, word_counts, romance_df, rpc>>
    /\ UNCHANGED parseVars

\* the rows list(word_counts.items()) with count > 0
PositiveRows(counts, words) ==
    SelectSeq([k \in 1..Len(DictKeys(words)) |->
                  [word |-> DictKeys(words)[k], count |-> counts[DictKeys(words)[k]]]],
              LAMBDA row : row.count > 0)

\* sort_values(by='count', ascending=False): the rows in an order of falling count;
\* the default sort is not stable, so rows of equal count come in any order
SortedByCount(rows) ==
    {sorted \in [1..Len(rows) -> {rows[k] : k \in 1..Len(rows)}] :
        /\ \A k \in 1..Len(rows) : \E l \in 1..Len(rows) : sorted[l] = rows[k]
        /\ \A k \in 1..(Len(rows) - 1) : sorted[k].count >= sorted[k + 1].count}

\* lines 123-125: the DataFrame of the words that occurred, sorted by count
RomanceReturn ==
    /\ rpc = "count"
    /\ mi > Len(df)
    /\ romance_df' \in SortedByCount(PositiveRows(word_counts, romantic_words))
    /\ rpc' = "done"
    /\ UNCHANGED <<df, romantic_words, word_counts, mi, wi>>
    /\ UNCHANGED parseVars

NextRomance ==
    \/ RomanceStart
    \/ CountHit
    \/ CountMiss
    \/ NextMessage
    \/ RomanceReturn

SpecRomance == InitRomance /\ [][NextRomance]_vars

----------------------------------------------------------------------------
(* Properties of parse_chat.                                               *)

\* the date/time of a header parses under one of the attempted formats
Parses(header) ==
    LET match == DetailsMatch(header)
        str   == TimestampStr(match.date, match.time)
    IN  match.matched /\ (Strptime12(str).ok \/ Strptime24(str).ok)

\* the indices of the headers that parse, in the order of the text
KeptIndices ==
    SelectSeq([k \in 1..Len(timestamps_and_senders) |-> k],
              LAMBDA k : Parses(timestamps_and_senders[k]))

\* the timestamps the two formats give for a header
FormatResults(header) ==
    LET match == DetailsMatch(header)
        str   == TimestampStr(match.date, match.time)
    IN  {Strptime12(str), Strptime24(str)}

\* C1: the returned messages are exactly the (header, body) pairs whose date/time
\* parses, in the order of their headers: none dropped besides the unparseable ones,
\* none duplicated or reordered, and as many messages as headers when all parse.
C1_MessagesAreTheParseablePairs ==
    pc = "done" =>
        LET kept == KeptIndices
        IN  /\ Len(result) = Len(kept)
            /\ \A j \in 1..Len(kept) :
                  /\ result[j].message = Strip(messages[kept[j]])
                  /\ result[j].sender = Strip(DetailsMatch(timestamps_and_senders[kept[j]]).sender)
                  /\ result[j].timestamp.ok
                  /\ result[j].timestamp \in FormatResults(timestamps_and_senders[kept[j]])
            /\ (\A k \in 1..Len(timestamps_and_senders) : k \in {kept[j] : j \in 1..Len(kept)})
                  => Len(result) = Len(timestamps_and_senders)

\* a file where an unparseable header is dropped and a later one is kept
C1_Witness ==
    /\ pc = "done"
    /\ Len(result) >= 1
    /\ \E k \in 1..Len(timestamps_and_senders) : \E l \in 1..Len(timestamps_and_senders) :
          k < l /\ ~Parses(timestamps_and_senders[k]) /\ Parses(timestamps_and_senders[l])

\* the header matches of the text, left to right, as <<start, position after the end>>
RECURSIVE HeaderSpans(_, _)
HeaderSpans(s, p) ==
    IF p > Len(s) THEN <<>>
    ELSE Bind(MatchEnd(s, p, line_start_pattern),
              LAMBDA e : IF e = 0 THEN HeaderSpans(s, p + 1)
                         ELSE <<<<p, e>>>> \o HeaderSpans(s, e))

\* the text between the end of header k and the start of header k + 1 (or the end)
Between(s, spans, k) ==
    SubSeq(s, spans[k][2], IF k < Len(spans) THEN spans[k + 1][1] - 1 ELSE Len(s))

\* b is raw with leading and trailing whitespace removed and nothing else changed
IsTrimOf(b, raw) ==
    \E a \in 0..Len(raw) : \E z \in a..Len(raw) :
        /\ b = SubSeq(raw, a + 1, z)
        /\ \A k \in 1..a : raw[k] \in Space
        /\ \A k \in (z + 1)..Len(raw) : raw[k] \in Space
        /\ b # <<>> => (b[1] \notin Space /\ b[Len(b)] \notin Space)

\* every header of the file was written with comma and space between date and time
AllCommaForm == \A k \in 1..Len(input.recs) : input.recs[k].hdr.sep = <<",", " ">>

\* C2: with N >= 1 header matches, the body of message i is the text between the end
\* of header i and the start of header i + 1 (the end of the text for the last), with
\* only the outer whitespace removed and embedded newlines kept; the text before the
\* first header is in no body.
C2_BodyIsTextBetweenHeaders ==
    pc = "done" =>
        LET spans == HeaderSpans(content, 1)
            kept  == KeptIndices
        IN  spans # <<>> =>
            /\ Len(messages) = Len(spans)
            /\ \A k \in 1..Len(messages) : messages[k] = Between(content, spans, k)
            /\ Len(result) = Len(kept)
            /\ \A j \in 1..Len(result) :
                  IsTrimOf(result[j].message, Between(content, spans, kept[j]))
            /\ AllCommaForm =>
                  /\ Len(messages) = Len(input.recs)
                  /\ spans[1][1] = Len(input.pre) + 1
                  /\ \A k \in 1..Len(messages) : messages[k] = input.recs[k].body

\* two messages after a preamble, the first body with an embedded newline
C2_Witness ==
    /\ pc = "done"
    /\ input.pre # <<>>
    /\ Len(result) = 2
    /\ \E k \in 2..(Len(result[1].message) - 1) : result[1].message[k] = "\n"
    /\ result[1].message # messages[1]

\* the header with comma and space between date and time
CommaForm(h) == [h EXCEPT !.sep = <<",", " ">>]

\* C3: a header starts a message both with comma+space and with a space only between
\* date and time: when the comma form of a header yields a message, so does the header.
C3_BothSeparatorsStartAMessage ==
    (pc = "done" /\ Len(input.recs) = 1 /\ ParseHeader(HeaderText(CommaForm(input.recs[1].hdr))).ok) =>
        /\ Len(timestamps_and_senders) = 1
        /\ Len(result) = 1

\* the file with the characters between seconds and marker of its one header replaced
WithGap(in, g) == [in EXCEPT !.recs[1].hdr.gap = g]

\* C4: for a header with an AM/PM marker, the variants with U+202F, a space or nothing
\* between the seconds and the marker give the same parse outcome.
C4_GapVariantsParseAlike ==
    (pc = "done" /\ Len(input.recs) = 1 /\ input.recs[1].hdr.marker # <<>>) =>
        \A g \in Gaps : parse_chat(InputText(WithGap(input, g))) = result

Is12Hour(h) == h.marker # <<>> /\ NumVal(h.hour) \in 1..12
Is24Hour(h) == h.marker = <<>> /\ h.gap = <<>> /\ NumVal(h.hour) \in 0..23

ValidDate(h) ==
    /\ NumVal(h.month) \in 1..12
    /\ NumVal(h.day) \in 1..DaysInMonth(IF Len(h.year) = 2 THEN 2000 + NumVal(h.year)
                                        ELSE NumVal(h.year), NumVal(h.month))

\* the date and time as written in the header
Written(h) ==
    [ok |-> TRUE,
     year |-> IF Len(h.year) = 2 THEN 2000 + NumVal(h.year) ELSE NumVal(h.year),
     month |-> NumVal(h.month), day |-> NumVal(h.day),
     hour |-> IF h.marker = <<>> THEN NumVal(h.hour)
              ELSE (NumVal(h.hour) % 12) + (IF Lower(h.marker) = <<"p", "m">> THEN 12 ELSE 0),
     minute |-> 5, second |-> 0]

\* C5: in a file that mixes 12-hour headers with a marker and 24-hour headers without,
\* every such header with a valid date yields a message whose timestamp is the date and
\* time written in that header.
C5_MixedFormatsAllParse ==
    ( /\ pc = "done"
      /\ AllCommaForm
      /\ \E k \in 1..Len(input.recs) : Is12Hour(input.recs[k].hdr)
      /\ \E k \in 1..Len(input.recs) : Is24Hour(input.recs[k].hdr)
      /\ \A k \in 1..Len(input.recs) :
            /\ Is12Hour(input.recs[k].hdr) \/ Is24Hour(input.recs[k].hdr)
            /\ ValidDate(input.recs[k].hdr) ) =>
        /\ Len(result) = Len(input.recs)
        /\ \A k \in 1..Len(result) : result[k].timestamp = Written(input.recs[k].hdr)

\* the digits of the year in the date of a header
YearDigits(header) ==
    Bind(DetailsMatch(header).date,
         LAMBDA d : SubSeq(d, 1 + (CHOOSE k \in 1..Len(d) :
                                      d[k] = "/" /\ \A l \in (k + 1)..Len(d) : d[l] # "/"),
                           Len(d)))

\* C6 as stated: a two-digit year YY of a header that parses gives the year 2000 + YY.
C6_TwoDigitYearIs2000PlusYY ==
    pc = "done" =>
        LET kept == KeptIndices
            yy(j) == YearDigits(timestamps_and_senders[kept[j]])
        IN  \A j \in 1..Len(result) :
            Len(yy(j)) = 2 =>
                result[j].timestamp.year = 2000 + NumVal(yy(j))

\* C6, amended: a two-digit year YY of a header that parses gives the year 2000 + YY
\* for YY in 00..68 and 1900 + YY for YY in 69..99.
C6_TwoDigitYearPivotsAt69 ==
    pc = "done" =>
        LET kept == KeptIndices
            yy(j) == YearDigits(timestamps_and_senders[kept[j]])
        IN  \A j \in 1..Len(result) :
            Len(yy(j)) = 2 =>
                result[j].timestamp.year =
                    (IF NumVal(yy(j)) <= 68
                     THEN 2000 ELSE 1900) + NumVal(yy(j))

\* a message from a header dated with the two-digit year 70
C6_Witness ==
    /\ pc = "done"
    /\ \E j \in 1..Len(result) :
          /\ Len(result) = Len(KeptIndices)
          /\ YearDigits(timestamps_and_senders[KeptIndices[j]]) = <<"7", "0">>
          /\ result[j].timestamp.year = 1970

\* C7: every message has a sender that is non-empty after trimming.
C7_SenderNeverEmpty ==
    pc = "done" =>
        \A j \in 1..Len(result) : \E k \in 1..Len(result[j].sender) : result[j].sender[k] \notin Space

\* C8: the result is empty in exactly two cases, each with its own diagnostic: no header
\* match, and header matches whose records are all dropped; never both diagnostics, and
\* none with a non-empty result.
C8_TwoEmptyResultDiagnostics ==
    pc = "done" =>
        /\ (result = <<>>) <=> (errors # <<>>)
        /\ Len(errors) <= 1
        /\ NoLinesDiagnostic # FailedDiagnostic
        /\ LET spans == HeaderSpans(content, 1)
           IN  /\ (errors = <<NoLinesDiagnostic>>) <=> (spans = <<>>)
               /\ (errors = <<FailedDiagnostic>>) <=>
                     /\ spans # <<>>
                     /\ \A k \in 1..Len(timestamps_and_senders) :
                           ~Parses(timestamps_and_senders[k])

\* two headers found and both dropped
C8_Witness ==
    /\ pc = "done"
    /\ Len(timestamps_and_senders) = 2
    /\ errors = <<FailedDiagnostic>>
    /\ result = <<>>

\* C10: the split of the text on the header pattern, less its first piece, is as long
\* as the list of header matches, so the loop never reads past the headers.
C10_OneBodyPerHeader ==
    /\ pc = "start" => Len(Split(content)) - 1 = Len(FindAll(content))
    /\ pc \in {"loop", "done"} => Len(messages) = Len(timestamps_and_senders)
    /\ (pc = "loop" /\ i <= Len(messages)) => i <= Len(timestamps_and_senders)

\* the loop at the last of at least two bodies
C10_Witness ==
    /\ pc = "loop"
    /\ Len(messages) >= 2
    /\ i = Len(messages)
    /\ i = Len(timestamps_and_senders)

----------------------------------------------------------------------------
(* Properties of analyze_romance.                                          *)

\* the count reported for a word: that of its row, 0 when it has no row
Reported(word) ==
    IF \E k \in 1..Len(romance_df) : romance_df[k].word = word
    THEN (CHOOSE row \in {romance_df[k] : k \in 1..Len(romance_df)} : row.word = word).count
    ELSE 0

\* C9: for each keyword, of any letter case, the reported count is the number of
\* messages that contain it at least once as a case-insensitive substring.
C9_CountsMessagesContainingKeyword ==
    rpc = "done" =>
        \A k \in 1..Len(romantic_words) :
            Reported(romantic_words[k]) =
                Cardinality({m \in 1..Len(df) : Contains(Lower(df[m]), Lower(romantic_words[k]))})

====
